---- MODULE Spec2Model ----
(***************************************************************************)
(* A model of refer (src/src/main.rs): the terminal session of main, the   *)
(* panic hook and catch_unwind boundary around it, App::new / App::run /   *)
(* Drop for App, and the key dispatcher (key_listener, quit_listener,      *)
(* normal_key_event, write_key_event) acting on the Resource registry.     *)
(*                                                                         *)
(* The modules cursor, input, resource and ui are not part of the source   *)
(* at hand; Pointer, EntryBox, FileBuff and Resource are modelled from     *)
(* sections 3 and 4 of spec.md.                                            *)
(***************************************************************************)
EXTENDS Integers, Sequences, FiniteSets, TLC

VARIABLES
    pc,           \* where main is
    hook,         \* the installed panic hook
    old_hook,     \* main's local old_hook (line 173)
    panic_buff,   \* main's panic_buff: the messages pushed by the capture hook
    res,          \* main's local res: the result of catch_unwind (line 190)
    outcome,      \* how the process ended
    reported,     \* the messages carried by the error main returns (line 205)
    raw,          \* terminal: raw mode enabled
    alt,          \* terminal: alternate screen entered
    mouse,        \* terminal: mouse capture enabled
    cursorShown,  \* terminal: cursor visible
    released,     \* how often Drop for App has attempted each release step
    panicking,    \* the thread is unwinding from a panic
    how,          \* the path on which the session body was left
    resource,     \* run's local resource: the registry
    event,        \* key_listener's local event (line 73)
    prev,         \* the registry as key_listener received it
    entryFrom     \* the region focused when text entry was last begun

vars == <<pc, hook, old_hook, panic_buff, res, outcome, reported, raw, alt,
          mouse, cursorShown, released, panicking, how, resource, event, prev,
          entryFrom>>

term == <<raw, alt, mouse, cursorShown>>
reg == <<resource, event, prev, entryFrom>>

----------------------------------------------------------------------------
(* Bounds of the model *)

\* the most characters the environment lets the buffer and the file names
\* hold together
MaxChars == 3
\* the most file names the environment lets the user commit
MaxFiles == 2

----------------------------------------------------------------------------
(* Input events (crossterm::event::Event) *)

NONE == {}
CONTROL == {"CONTROL"}
CONTROL_SHIFT == {"CONTROL", "SHIFT"}

Key(code, ch, mods) == [kind |-> "Key", code |-> code, ch |-> ch, mods |-> mods]
CharKey(ch, mods) == Key("Char", ch, mods)
MouseEvent == [kind |-> "Mouse", code |-> "", ch |-> "", mods |-> NONE]
NoEvent == [kind |-> "None", code |-> "", ch |-> "", mods |-> NONE]

CtrlQ == CharKey("q", CONTROL)
CtrlC == CharKey("c", CONTROL)
CtrlN == CharKey("n", CONTROL)

\* the events the environment delivers
Events ==
    {CtrlQ, CtrlC, CtrlN,
     CharKey("a", NONE), CharKey("a", CONTROL),
     CharKey("n", NONE), CharKey("n", CONTROL_SHIFT),
     CharKey("q", CONTROL_SHIFT),
     Key("Left", "", NONE), Key("Right", "", NONE), Key("Right", "", CONTROL),
     Key("Enter", "", NONE), Key("Backspace", "", NONE), MouseEvent}

\* the argument lists the process is started with
ArgLists == {<<>>, << <<"f">> >>}

\* the hooks installed before main runs
PriorHooks == {"default", "custom"}

----------------------------------------------------------------------------
(* Pointer: the focus state (spec.md 3 and 4.2) *)

Pointer_new == [set |-> "A", cursor |-> "Files", last |-> "Files"]

Pointer_toggle(p) ==
    IF p.set = "A"
    THEN [set |-> "B", cursor |-> "Entry", last |-> p.cursor]
    ELSE [set |-> "A", cursor |-> p.last, last |-> p.last]

Pointer_set_cursor(p, region) ==
    IF p.set = "A" THEN [p EXCEPT !.cursor = region] ELSE p

(* EntryBox: the text entry state (spec.md 3 and 4.3) *)

EntryBox_new == [active |-> FALSE, buffer |-> <<>>]

EntryBox_bool(b) == b.active

EntryBox_toggle(b) == [b EXCEPT !.active = ~b.active]

EntryBox_push(b, c) == [b EXCEPT !.buffer = Append(b.buffer, c)]

EntryBox_pop(b) ==
    IF b.buffer = <<>> THEN b
    ELSE [b EXCEPT !.buffer = SubSeq(b.buffer, 1, Len(b.buffer) - 1)]

EntryBox_clear(b) == [b EXCEPT !.buffer = <<>>]

\* take: the pair of the box left behind and the text handed to the caller
EntryBox_take(b) == [box |-> [b EXCEPT !.buffer = <<>>], name |-> b.buffer]

(* FileBuff: the file list (spec.md 3) *)

FileBuff_default == <<>>

FileBuff_insert(f, name) == Append(f, name)

(* Resource: the typed registry (spec.md 3 and 4.1) *)

Resource_default ==
    [inserted |-> {}, Args |-> <<>>, Pointer |-> Pointer_new,
     EntryBox |-> EntryBox_new, FileBuff |-> FileBuff_default]

Resource_insert(r, t, v) == [r EXCEPT !.inserted = @ \cup {t}, ![t] = v]

Resource_has(r, t) == t \in r.inserted

----------------------------------------------------------------------------
(* The dispatcher (src/src/main.rs 71-155) *)

\* a quit check that knows Ctrl+Q alone
quit_listener_onlyQ(e) ==
    e.kind = "Key" /\ e.code = "Char" /\ e.ch = "q" /\ e.mods = CONTROL

quit_listener(e) ==
    \/ e.kind = "Key" /\ e.code = "Char" /\ e.ch = "q" /\ e.mods = CONTROL
    \/ e.kind = "Key" /\ e.code = "Char" /\ e.ch = "c" /\ e.mods = CONTROL

IsCtrlN(e) == e.kind = "Key" /\ e.code = "Char" /\ e.ch = "n" /\ e.mods = CONTROL

\* normal_key_event with a changed arm: a character key typed into the buffer
\* ("pushChar"), Ctrl+N that does not toggle the Pointer ("noPointer"), the
\* arrows swapped ("swapped")
normal_key_event_with(bug, e, r) ==
    IF IsCtrlN(e)
    THEN [r EXCEPT !.Pointer = IF bug = "noPointer" THEN @
                                ELSE Pointer_toggle(@),
                   !.EntryBox = EntryBox_toggle(@)]
    ELSE IF e.kind = "Key" /\ e.code = "Left"
    THEN [r EXCEPT !.Pointer = Pointer_set_cursor(@, IF bug = "swapped"
                                                     THEN "View" ELSE "Files")]
    ELSE IF e.kind = "Key" /\ e.code = "Right"
    THEN [r EXCEPT !.Pointer = Pointer_set_cursor(@, IF bug = "swapped"
                                                     THEN "Files" ELSE "View")]
    ELSE IF bug = "pushChar" /\ e.kind = "Key" /\ e.code = "Char"
    THEN [r EXCEPT !.EntryBox = EntryBox_push(@, e.ch)]
    ELSE r

normal_key_event_pushChar(e, r) == normal_key_event_with("pushChar", e, r)
normal_key_event_noPointer(e, r) == normal_key_event_with("noPointer", e, r)
normal_key_event_swapped(e, r) == normal_key_event_with("swapped", e, r)

normal_key_event(e, r) ==
    IF IsCtrlN(e)
    THEN [r EXCEPT !.Pointer = Pointer_toggle(@),
                   !.EntryBox = EntryBox_toggle(@)]
    ELSE IF e.kind = "Key" /\ e.code = "Left"
    THEN [r EXCEPT !.Pointer = Pointer_set_cursor(@, "Files")]
    ELSE IF e.kind = "Key" /\ e.code = "Right"
    THEN [r EXCEPT !.Pointer = Pointer_set_cursor(@, "View")]
    ELSE r

\* write_key_event with a changed arm: cancel without clear ("noClear"), commit
\* that clears before it reads the name ("clearFirst"), leaving entry without
\* toggling the Pointer ("noPointer"), Backspace on an empty buffer leaving
\* entry mode ("backspaceCancels"), Backspace emptying the buffer
\* ("backspaceClears"), Ctrl-modified characters ignored ("plainOnly")
write_key_event_with(bug, e, r) ==
    IF IsCtrlN(e)
    THEN [r EXCEPT !.Pointer = IF bug = "noPointer" THEN @
                                ELSE Pointer_toggle(@),
                   !.EntryBox = IF bug = "noClear" THEN EntryBox_toggle(@)
                                ELSE EntryBox_toggle(EntryBox_clear(@))]
    ELSE IF e.kind = "Key" /\ e.code = "Enter"
    THEN LET taken == EntryBox_take(IF bug = "clearFirst"
                                    THEN EntryBox_clear(r.EntryBox)
                                    ELSE r.EntryBox)
         IN  [r EXCEPT !.FileBuff = FileBuff_insert(@, taken.name),
                       !.Pointer = IF bug = "noPointer" THEN @
                                   ELSE Pointer_toggle(@),
                       !.EntryBox = EntryBox_toggle(taken.box)]
    ELSE IF e.kind = "Key" /\ e.code = "Backspace"
    THEN IF bug = "backspaceCancels" /\ r.EntryBox.buffer = <<>>
         THEN [r EXCEPT !.Pointer = Pointer_toggle(@),
                        !.EntryBox = EntryBox_toggle(@)]
         ELSE IF bug = "backspaceClears"
         THEN [r EXCEPT !.EntryBox = EntryBox_clear(@)]
         ELSE [r EXCEPT !.EntryBox = EntryBox_pop(@)]
    ELSE IF e.kind = "Key" /\ e.code = "Char"
            /\ (bug = "plainOnly" => "CONTROL" \notin e.mods)
    THEN [r EXCEPT !.EntryBox = EntryBox_push(@, e.ch)]
    ELSE r

write_key_event_backspaceCancels(e, r) ==
    write_key_event_with("backspaceCancels", e, r)
write_key_event_backspaceClears(e, r) ==
    write_key_event_with("backspaceClears", e, r)
write_key_event_plainOnly(e, r) == write_key_event_with("plainOnly", e, r)
write_key_event_noClear(e, r) == write_key_event_with("noClear", e, r)
write_key_event_clearFirst(e, r) == write_key_event_with("clearFirst", e, r)
write_key_event_noPointer(e, r) == write_key_event_with("noPointer", e, r)

write_key_event(e, r) ==
    IF IsCtrlN(e)
    THEN [r EXCEPT !.Pointer = Pointer_toggle(@),
                   !.EntryBox = EntryBox_toggle(EntryBox_clear(@))]
    ELSE IF e.kind = "Key" /\ e.code = "Enter"
    THEN LET taken == EntryBox_take(r.EntryBox)
         IN  [r EXCEPT !.FileBuff = FileBuff_insert(@, taken.name),
                       !.Pointer = Pointer_toggle(@),
                       !.EntryBox = EntryBox_toggle(taken.box)]
    ELSE IF e.kind = "Key" /\ e.code = "Backspace"
    THEN [r EXCEPT !.EntryBox = EntryBox_pop(@)]
    ELSE IF e.kind = "Key" /\ e.code = "Char"
    THEN [r EXCEPT !.EntryBox = EntryBox_push(@, e.ch)]
    ELSE r

\* lines 77-80: the branch on the entry box's flag
dispatch(e, r) ==
    IF EntryBox_bool(r.EntryBox) THEN write_key_event(e, r)
    ELSE normal_key_event(e, r)

\* the types key_listener and its callees look up
DispatchTypes == {"EntryBox", "Pointer", "FileBuff"}

\* init_resource that forgets the file list
init_resource_noFileBuff(args) ==
    LET r0 == Resource_default
        r1 == Resource_insert(r0, "Args", args)
        r2 == Resource_insert(r1, "Pointer", Pointer_new)
    IN  Resource_insert(r2, "EntryBox", EntryBox_new)

init_resource(args) ==
    LET r0 == Resource_default
        r1 == Resource_insert(r0, "Args", args)
        r2 == Resource_insert(r1, "Pointer", Pointer_new)
        r3 == Resource_insert(r2, "EntryBox", EntryBox_new)
    IN  Resource_insert(r3, "FileBuff", FileBuff_default)

\* the characters held by the buffer and the file names
RECURSIVE TotalLen(_)
TotalLen(names) ==
    IF names = <<>> THEN 0 ELSE Len(Head(names)) + TotalLen(Tail(names))

Held(r) == Len(r.EntryBox.buffer) + TotalLen(r.FileBuff)

\* the environment types no more than MaxChars characters and commits no more
\* than MaxFiles names
Deliverable(e, r) ==
    /\ (r.EntryBox.active /\ e.kind = "Key" /\ e.code = "Char"
          /\ ~IsCtrlN(e) /\ e \notin {CtrlQ, CtrlC})
       => Held(r) < MaxChars
    /\ (r.EntryBox.active /\ e.kind = "Key" /\ e.code = "Enter")
       => Len(r.FileBuff) < MaxFiles

----------------------------------------------------------------------------
(* The panic hook (src/src/main.rs 175-188) *)

StrPayload(text) == [type |-> "str", text |-> text]
StringPayload(text) == [type |-> "String", text |-> text]
OtherPayload == [type |-> "other", text |-> ""]

panic_message(payload) ==
    IF payload.type = "str" THEN payload.text
    ELSE IF payload.type = "String" THEN payload.text
    ELSE "Box<dyn Any>"

capture_hook(buf, payload) == Append(buf, panic_message(payload))

\* a panic runs the installed hook
RunHook(payload) ==
    panic_buff' = IF hook = "capture" THEN capture_hook(panic_buff, payload)
                  ELSE panic_buff

UnwrapRaw == StringPayload("unwrap: enable_raw_mode")
NoApp == StringPayload("Couldn't create App object")
RunIssue == StringPayload("Ran into issue while running the application")
DropRaw == StringPayload("unwrap: disable_raw_mode")
DropScreen == StringPayload("unwrap: leave alternate screen")
DropCursor == StringPayload("unwrap: show_cursor")
DropMessages == {panic_message(DropRaw), panic_message(DropScreen),
                 panic_message(DropCursor)}
\* what a panic inside the render callback may carry
UiPayloads == {StrPayload("ui"), OtherPayload}

----------------------------------------------------------------------------
(* main, App::new, App::run and Drop for App *)

Init ==
    /\ pc = "main"
    /\ hook \in PriorHooks
    /\ old_hook = "none"
    /\ panic_buff = <<>>
    /\ res = "none"
    /\ outcome = "running"
    /\ reported = <<>>
    /\ raw = FALSE
    /\ alt = FALSE
    /\ mouse = FALSE
    /\ cursorShown = TRUE
    /\ released = [raw |-> 0, screen |-> 0, cursor |-> 0]
    /\ panicking = FALSE
    /\ how = "none"
    /\ resource = Resource_default
    /\ event = NoEvent
    /\ prev = Resource_default
    /\ entryFrom = "Files"

\* run's locals go out of scope
ClearRegistry ==
    /\ resource' = Resource_default
    /\ event' = NoEvent
    /\ prev' = Resource_default
    /\ entryFrom' = "Files"

\* lines 171-188: take_hook, then set_hook with the capturing closure
MainInstallHook ==
    /\ pc = "main"
    /\ old_hook' = hook
    /\ hook' = "capture"
    /\ pc' = "new"
    /\ UNCHANGED <<panic_buff, res, outcome, reported, term, released,
                   panicking, how, reg>>

\* the closure of catch_unwind ends in a panic while no App is alive
PanicNoApp(payload) ==
    /\ RunHook(payload)
    /\ res' = "Err"
    /\ how' = "new"
    /\ pc' = "caught"

\* lines 191-194 with App::new (30-37)
AppNew ==
    /\ pc = "new"
    /\ \/ /\ PanicNoApp(UnwrapRaw)        \* enable_raw_mode().unwrap() fails
          /\ UNCHANGED raw
       \/ /\ raw' = TRUE                  \* Terminal::new(backend)? fails
          /\ PanicNoApp(NoApp)
       \/ /\ raw' = TRUE
          /\ pc' = "run"
          /\ UNCHANGED <<panic_buff, res, how>>
    /\ UNCHANGED <<hook, old_hook, outcome, reported, alt, mouse, cursorShown,
                   released, panicking, reg>>

\* run returns Err: line 196-198 panics while the App is alive
RunErr(h) ==
    /\ RunHook(RunIssue)
    /\ panicking' = TRUE
    /\ how' = h
    /\ pc' = "drop"
    /\ ClearRegistry

\* lines 40-44: execute!(EnterAlternateScreen, EnableMouseCapture)?
RunEnter ==
    /\ pc = "run"
    /\ \/ /\ alt' = TRUE
          /\ mouse' = TRUE
          /\ pc' = "init"
          /\ UNCHANGED <<panic_buff, panicking, how, reg>>
       \/ /\ RunErr("enter")              \* EnterAlternateScreen fails
          /\ UNCHANGED <<alt, mouse>>
       \/ /\ alt' = TRUE                  \* EnableMouseCapture fails
          /\ RunErr("enter")
          /\ UNCHANGED mouse
    /\ UNCHANGED <<hook, old_hook, res, outcome, reported, raw, cursorShown,
                   released>>

\* InitResource ending the process when no file is named
InitResource_exitOnEmpty ==
    /\ pc = "init"
    /\ \/ /\ \E args \in ArgLists \ {<<>>} : resource' = init_resource(args)
          /\ pc' = "poll"
          /\ UNCHANGED <<outcome, how>>
       \/ /\ outcome' = "exit"
          /\ how' = "parse_exit"
          /\ pc' = "done"
          /\ UNCHANGED resource
    /\ UNCHANGED <<hook, old_hook, panic_buff, res, reported, term, released,
                   panicking, event, prev, entryFrom>>

\* line 46 with init_resource (157-167); Refer::parse ends the process itself
\* on --help or on arguments it rejects
InitResource ==
    /\ pc = "init"
    /\ \/ /\ \E args \in ArgLists : resource' = init_resource(args)
          /\ pc' = "poll"
          /\ UNCHANGED <<outcome, how>>
       \/ /\ outcome' = "exit"
          /\ how' = "parse_exit"
          /\ pc' = "done"
          /\ UNCHANGED resource
    /\ UNCHANGED <<hook, old_hook, panic_buff, res, reported, term, released,
                   panicking, event, prev, entryFrom>>

\* a panic inside the loop unwinds through run
LoopPanic(payload) ==
    /\ RunHook(payload)
    /\ panicking' = TRUE
    /\ how' = "loop_panic"
    /\ pc' = "drop"
    /\ ClearRegistry

\* the loop drawing a frame only after an event arrived
KeyListener_skipIdleDraw ==
    /\ pc = "poll"
    /\ \/ /\ event' = NoEvent             \* poll: no event within DELTA
          /\ prev' = resource
          /\ pc' = "poll"
          /\ UNCHANGED <<resource, entryFrom, panic_buff, panicking, how>>
       \/ RunErr("loop_err")              \* poll(..)? or read()? fails
       \/ \E e \in Events :
            /\ Deliverable(e, resource)
            /\ IF quit_listener(e)
               THEN /\ event' = e
                    /\ prev' = resource
                    /\ pc' = "quit"
                    /\ UNCHANGED <<resource, entryFrom, panic_buff, panicking,
                                   how>>
               ELSE IF ~(DispatchTypes \subseteq resource.inserted)
               THEN LoopPanic(StringPayload("resource not found"))
               ELSE /\ event' = e
                    /\ prev' = resource
                    /\ resource' = dispatch(e, resource)
                    /\ entryFrom' =
                         IF ~resource.EntryBox.active
                            /\ resource'.EntryBox.active
                         THEN resource.Pointer.cursor
                         ELSE entryFrom
                    /\ pc' = "draw"
                    /\ UNCHANGED <<panic_buff, panicking, how>>
    /\ UNCHANGED <<hook, old_hook, res, outcome, reported, term, released>>

\* line 49 with key_listener (71-84)
KeyListener ==
    /\ pc = "poll"
    /\ \/ /\ event' = NoEvent             \* poll: no event within DELTA
          /\ prev' = resource
          /\ pc' = "draw"
          /\ UNCHANGED <<resource, entryFrom, panic_buff, panicking, how>>
       \/ RunErr("loop_err")              \* poll(..)? or read()? fails
       \/ \E e \in Events :
            /\ Deliverable(e, resource)
            /\ IF quit_listener(e)
               THEN /\ event' = e
                    /\ prev' = resource
                    /\ pc' = "quit"
                    /\ UNCHANGED <<resource, entryFrom, panic_buff, panicking,
                                   how>>
               ELSE IF ~(DispatchTypes \subseteq resource.inserted)
               THEN LoopPanic(StringPayload("resource not found"))
               ELSE /\ event' = e
                    /\ prev' = resource
                    /\ resource' = dispatch(e, resource)
                    /\ entryFrom' =
                         IF ~resource.EntryBox.active
                            /\ resource'.EntryBox.active
                         THEN resource.Pointer.cursor
                         ELSE entryFrom
                    /\ pc' = "draw"
                    /\ UNCHANGED <<panic_buff, panicking, how>>
    /\ UNCHANGED <<hook, old_hook, res, outcome, reported, term, released>>

\* lines 49-51: key_listener returned true, run returns Ok(())
RunQuit ==
    /\ pc = "quit"
    /\ how' = "quit"
    /\ pc' = "drop"
    /\ ClearRegistry
    /\ UNCHANGED <<hook, old_hook, panic_buff, res, outcome, reported, term,
                   released, panicking>>

\* line 53: terminal.draw(|f| ui::ui(f, &resource))?
Draw ==
    /\ pc = "draw"
    /\ \/ /\ cursorShown' \in BOOLEAN     \* the frame shows or hides the cursor
          /\ pc' = "poll"
          /\ event' = NoEvent
          /\ prev' = Resource_default
          /\ UNCHANGED <<resource, entryFrom, panic_buff, panicking, how>>
       \/ /\ RunErr("loop_err")
          /\ UNCHANGED cursorShown
       \/ /\ \E payload \in UiPayloads : LoopPanic(payload)
          /\ UNCHANGED cursorShown
    /\ UNCHANGED <<hook, old_hook, res, outcome, reported, raw, alt, mouse,
                   released>>

\* the release steps of Drop for App, in order, and the step that fails
DropFailures == {"none", "raw", "leave", "mouse", "cursor"}

\* lines 58-69: each step is unwrapped, so a failing step panics
Drop(failAt) ==
    /\ pc = "drop"
    /\ released' = [raw |-> released.raw + 1,
                    screen |-> IF failAt = "raw" THEN released.screen
                               ELSE released.screen + 1,
                    cursor |-> IF failAt \in {"none", "cursor"}
                               THEN released.cursor + 1 ELSE released.cursor]
    /\ raw' = IF failAt = "raw" THEN raw ELSE FALSE
    /\ alt' = IF failAt \in {"raw", "leave"} THEN alt ELSE FALSE
    /\ mouse' = IF failAt \in {"raw", "leave", "mouse"} THEN mouse ELSE FALSE
    /\ cursorShown' = IF failAt = "none" THEN TRUE ELSE cursorShown
    /\ IF failAt = "none"
       THEN /\ res' = IF panicking THEN "Err" ELSE "Ok"
            /\ panicking' = FALSE
            /\ pc' = "caught"
            /\ UNCHANGED <<panic_buff, outcome>>
       ELSE /\ RunHook(IF failAt = "raw" THEN DropRaw
                       ELSE IF failAt = "cursor" THEN DropCursor
                       ELSE DropScreen)
            /\ IF panicking
               THEN /\ outcome' = "abort"    \* a panic while unwinding
                    /\ pc' = "done"
                    /\ UNCHANGED <<res, panicking>>
               ELSE /\ res' = "Err"
                    /\ panicking' = FALSE
                    /\ pc' = "caught"
                    /\ UNCHANGED outcome
    /\ UNCHANGED <<hook, old_hook, reported, how, reg>>

\* RestoreHook putting the old hook back only after a clean run
RestoreHook_onlyOnOk ==
    /\ pc = "caught"
    /\ hook' = IF res = "Ok" THEN old_hook ELSE hook
    /\ pc' = "report"
    /\ UNCHANGED <<old_hook, panic_buff, res, outcome, reported, term,
                   released, panicking, how, reg>>

\* line 201: set_hook(old_hook)
RestoreHook ==
    /\ pc = "caught"
    /\ hook' = old_hook
    /\ pc' = "report"
    /\ UNCHANGED <<old_hook, panic_buff, res, outcome, reported, term,
                   released, panicking, how, reg>>

\* lines 203-208
Report ==
    /\ pc = "report"
    /\ outcome' = res
    /\ reported' = IF res = "Err" THEN panic_buff ELSE <<>>
    /\ pc' = "done"
    /\ UNCHANGED <<hook, old_hook, panic_buff, res, term, released, panicking,
                   how, reg>>

Next ==
    \/ MainInstallHook
    \/ AppNew
    \/ RunEnter
    \/ InitResource
    \/ KeyListener
    \/ RunQuit
    \/ Draw
    \/ \E failAt \in DropFailures : Drop(failAt)
    \/ RestoreHook
    \/ Report

Spec == Init /\ [][Next]_vars

----------------------------------------------------------------------------
(* Properties *)

LoopPcs == {"poll", "draw", "quit"}
BodyPcs == {"new", "run", "init", "poll", "draw", "quit", "drop"}
\* the session body was left from inside the loop
LoopExits == {"quit", "loop_err", "loop_panic"}

Restored == ~raw /\ ~alt /\ ~mouse /\ cursorShown

InBuff(msgs) == \E i \in 1..Len(panic_buff) : panic_buff[i] \in msgs

\* C1 (teardown-always): once the process has finished a session whose loop
\* ended by a quit event or by an error or panic inside the loop, raw mode is
\* disabled, the alternate screen is left, mouse capture is disabled and the
\* cursor is shown.
C1_TeardownAlways ==
    (pc = "done" /\ how \in LoopExits) => Restored

\* C2 (best-effort release): once the session scope has been left, each of
\* the three release steps has been attempted exactly once and no release
\* step has raised a new panic.
C2_BestEffortRelease ==
    (pc \in {"caught", "report", "done"} /\ how \in LoopExits \cup {"enter"})
    => /\ released = [raw |-> 1, screen |-> 1, cursor |-> 1]
       /\ ~InBuff(DropMessages)
       /\ outcome # "abort"

\* C3 (crash-report ordering): whenever the captured message has been
\* surfaced as the process's error after an App was created, the release is
\* complete: neither raw mode nor the alternate screen is still held.
C3_RestoreBeforeReport ==
    (outcome = "Err" /\ how # "new")
    => (~raw /\ ~alt /\ released = [raw |-> 1, screen |-> 1, cursor |-> 1])

\* C4 (quit precedence): whenever key_listener has handled a Ctrl+Q or Ctrl+C
\* event, in normal or entry mode, it has returned the terminate signal and
\* the registry is as it was before the event.
C4_QuitPrecedence ==
    (pc \in {"draw", "quit"} /\ event \in {CtrlQ, CtrlC})
    => (pc = "quit" /\ resource = prev)

C4_Witness ==
    /\ pc = "quit"
    /\ event = CtrlC
    /\ prev.EntryBox.active
    /\ Len(prev.EntryBox.buffer) >= 2
    /\ resource = prev

\* C5 as the spec states it (empty argument list): with an empty argument
\* list the alternate screen is never entered and the loop is never run.
C5_EmptyArgsNoUi ==
    (Resource_has(resource, "Args") /\ resource.Args = <<>>)
    => (~alt /\ pc \notin LoopPcs)

\* C5 amended: an empty argument list starts the session like any other:
\* after the alternate screen is entered, init_resource can register the empty
\* list and enter the loop, and while the loop runs with the empty list the
\* terminal is held in raw mode and the alternate screen and the process has
\* not ended.
C5_EmptyArgsRunSession ==
    /\ pc = "init"
       => /\ alt
          /\ ENABLED (InitResource /\ pc' = "poll"
                      /\ Resource_has(resource', "Args")
                      /\ resource'.Args = <<>>)
    /\ (pc \in LoopPcs /\ resource.Args = <<>>)
       => (Resource_has(resource, "Args") /\ raw /\ alt /\ mouse
           /\ outcome = "running")

\* the loop has run with the empty list: a frame has been drawn since text
\* entry began
C5_Witness ==
    /\ pc = "poll"
    /\ Resource_has(resource, "Args")
    /\ resource.Args = <<>>
    /\ resource.EntryBox.active
    /\ alt

\* C6 (single outcome): every finished run either completed the session by
\* a quit event and reports success with no message, or reports an error
\* carrying exactly one captured message; the error is reported exactly when
\* the boundary caught a panic.
C6_SingleOutcome ==
    pc = "done"
    => \/ outcome = "Ok" /\ how = "quit" /\ res = "Ok" /\ reported = <<>>
       \/ outcome = "Err" /\ res = "Err" /\ Len(reported) = 1

\* C7 (hook lifecycle): the capture hook is installed while the session body
\* runs, and once main has passed set_hook(old_hook), whether the boundary
\* returned Ok or caught a panic, the hook installed before main is installed
\* again and the capture hook is not.
C7_HookLifecycle ==
    /\ pc \in BodyPcs => hook = "capture"
    /\ (pc = "report" \/ (pc = "done" /\ outcome \in {"Ok", "Err"}))
       => (hook = old_hook /\ hook \in PriorHooks)

C7_Witness ==
    /\ pc = "done"
    /\ outcome = "Err"
    /\ hook = "custom"

\* key_listener has just dispatched e in entry mode
DispatchedInEntry == pc = "draw" /\ event.kind = "Key" /\ prev.EntryBox.active

\* C8 (entry commit round-trip): after an Enter event in entry mode with
\* buffer s, the file list is the earlier list with s appended, the buffer is
\* empty and the entry box is inactive; s may be empty.
C8_CommitRoundTrip ==
    (DispatchedInEntry /\ event.code = "Enter")
    => /\ resource.FileBuff = Append(prev.FileBuff, prev.EntryBox.buffer)
       /\ resource.EntryBox.buffer = <<>>
       /\ ~resource.EntryBox.active

\* a second commit of a typed name after an earlier one
C8_Witness ==
    /\ DispatchedInEntry
    /\ event.code = "Enter"
    /\ Len(prev.FileBuff) = 1
    /\ Len(prev.EntryBox.buffer) = 2
    /\ prev.EntryBox.buffer[1] # prev.EntryBox.buffer[2]
    /\ resource.FileBuff[2] = prev.EntryBox.buffer

\* a commit with nothing typed after an earlier commit
C8_WitnessEmpty ==
    /\ DispatchedInEntry
    /\ event.code = "Enter"
    /\ Len(prev.FileBuff) = 1
    /\ prev.EntryBox.buffer = <<>>
    /\ resource.FileBuff[2] = <<>>

\* C9 (entry cancel discards input): after a Ctrl+N event in entry mode the
\* file list is as before, the buffer is empty and the entry box is inactive.
C9_CancelDiscards ==
    (DispatchedInEntry /\ event = CtrlN)
    => /\ resource.FileBuff = prev.FileBuff
       /\ resource.EntryBox.buffer = <<>>
       /\ ~resource.EntryBox.active

C9_Witness ==
    /\ DispatchedInEntry
    /\ event = CtrlN
    /\ Len(prev.EntryBox.buffer) >= 2
    /\ Len(prev.FileBuff) = 1
    /\ resource.EntryBox.buffer = <<>>

\* C10 (focus toggle involution): when text entry has just been left, by
\* cancel or by commit, the focus is in Set A on the region that was focused
\* when text entry was begun.
C10_FocusInvolution ==
    (pc = "draw" /\ prev.EntryBox.active /\ ~resource.EntryBox.active)
    => /\ resource.Pointer.set = "A"
       /\ resource.Pointer.cursor = entryFrom
       /\ entryFrom \in {"Files", "View"}

C10_Witness ==
    /\ pc = "draw"
    /\ prev.EntryBox.active
    /\ ~resource.EntryBox.active
    /\ event.code = "Enter"
    /\ prev.EntryBox.buffer # <<>>
    /\ entryFrom = "View"
    /\ resource.Pointer.cursor = "View"

\* text entry begun on View and cancelled
C10_WitnessCancel ==
    /\ pc = "draw"
    /\ prev.EntryBox.active
    /\ ~resource.EntryBox.active
    /\ event = CtrlN
    /\ resource.Pointer.cursor = "View"

\* key_listener has just dispatched an event in normal mode
DispatchedInNormal ==
    pc = "draw" /\ event.kind # "None" /\ ~prev.EntryBox.active

\* the events that neither the quit check nor an arm of the mode's handler
\* names: in normal mode all but Ctrl+N and the two arrows, in entry mode all
\* but Ctrl+N, Enter, Backspace and the character keys
Unmatched(e, active) ==
    \/ e.kind = "Mouse"
    \/ /\ e.kind = "Key"
       /\ ~active
       /\ e \notin {CtrlN, CtrlQ, CtrlC}
       /\ e.code \notin {"Left", "Right"}
    \/ /\ e.kind = "Key"
       /\ active
       /\ e.code \notin {"Char", "Enter", "Backspace"}

\* C11 (unmatched events are no-ops): after an event that the mode does not
\* match, key_listener has not signalled termination and every registry entry
\* (focus, entry flag, buffer, file list, argument list) is as before.
C11_UnmatchedNoOp ==
    (pc \in {"draw", "quit"} /\ Unmatched(event, prev.EntryBox.active))
    => (pc = "draw" /\ resource = prev)

\* a character key in normal mode after a name was committed
C11_Witness ==
    /\ DispatchedInNormal
    /\ event = CharKey("a", NONE)
    /\ Len(prev.FileBuff) >= 1
    /\ resource = prev

\* an arrow key in entry mode with text typed
C11_WitnessArrow ==
    /\ DispatchedInEntry
    /\ event.code = "Left"
    /\ prev.EntryBox.buffer # <<>>
    /\ resource = prev

\* a mouse event in entry mode
C11_WitnessMouse ==
    /\ pc = "draw"
    /\ event = MouseEvent
    /\ prev.EntryBox.active
    /\ resource = prev

\* the registry's types
RegistryTypes == {"Args", "Pointer", "EntryBox", "FileBuff"}

\* the registry entries the last event changed
ChangedTypes == {t \in RegistryTypes : resource[t] # prev[t]}

\* key_listener has just handled an event
Handled == pc \in {"draw", "quit"} /\ event.kind # "None"

\* C12 as the spec states it (dispatch mutual exclusion): a single event
\* changes at most one registry entry.
C12_AtMostOneMutation ==
    Handled => Cardinality(ChangedTypes) <= 1

\* C12 amended: a single event is handled by one arm only. The Ctrl+N arm
\* changes the Pointer and the EntryBox together, the Enter arm of entry mode
\* changes the FileBuff, the Pointer and the EntryBox together, every other
\* event changes at most one entry, and no event changes the argument list or
\* the set of registered types.
C12_OneArmPerEvent ==
    Handled
    => /\ "Args" \notin ChangedTypes
       /\ resource.inserted = prev.inserted
       /\ IF event = CtrlN
          THEN ChangedTypes = {"Pointer", "EntryBox"}
          ELSE IF prev.EntryBox.active /\ event.kind = "Key"
                  /\ event.code = "Enter"
          THEN ChangedTypes = {"FileBuff", "Pointer", "EntryBox"}
          ELSE Cardinality(ChangedTypes) <= 1

\* Backspace in entry mode with an empty buffer: one arm, no entry changed
C12_Witness ==
    /\ DispatchedInEntry
    /\ event.code = "Backspace"
    /\ prev.EntryBox.buffer = <<>>
    /\ ChangedTypes = {}

\* a commit changes three entries
C12_WitnessCommit ==
    /\ DispatchedInEntry
    /\ event.code = "Enter"
    /\ ChangedTypes = {"FileBuff", "Pointer", "EntryBox"}

\* C13 (buffer/active invariant): between dispatched events, whenever the
\* entry box is inactive its buffer is empty.
C13_BufferOnlyWhileActive ==
    (pc \in LoopPcs /\ ~resource.EntryBox.active)
    => resource.EntryBox.buffer = <<>>

\* entry mode was just left by cancel with text typed
C13_Witness ==
    /\ pc = "draw"
    /\ prev.EntryBox.active
    /\ Len(prev.EntryBox.buffer) >= 1
    /\ event = CtrlN
    /\ ~resource.EntryBox.active
    /\ resource.EntryBox.buffer = <<>>

\* text is held while the entry box is active
C13_WitnessActive ==
    /\ pc = "poll"
    /\ resource.EntryBox.active
    /\ Len(resource.EntryBox.buffer) >= 2

\* C14 (registry populated before the first poll): while the loop runs, the
\* EntryBox, the Pointer, the FileBuff and the argument list are registered,
\* and no lookup has failed.
C14_RegistryPopulated ==
    /\ pc \in LoopPcs => RegistryTypes \subseteq resource.inserted
    /\ ~InBuff({"resource not found"})

\* the first poll is about to happen
C14_Witness ==
    /\ pc = "poll"
    /\ prev = Resource_default
    /\ resource = init_resource(<< <<"f">> >>)
    /\ RegistryTypes \subseteq resource.inserted

\* C15 (mode/focus consistency): between dispatched events the focus is a
\* member of the active cursor set, Set B is active exactly when the entry box
\* is active, and the focus is on Files or View exactly when the entry box is
\* inactive.
C15_ModeFocusConsistent ==
    pc \in LoopPcs
    => /\ resource.Pointer.set = "A"
          => resource.Pointer.cursor \in {"Files", "View"}
       /\ resource.Pointer.set = "B" => resource.Pointer.cursor = "Entry"
       /\ resource.Pointer.set = "B" <=> resource.EntryBox.active
       /\ resource.Pointer.cursor \in {"Files", "View"}
          <=> ~resource.EntryBox.active

\* text entry begun from View
C15_Witness ==
    /\ pc = "poll"
    /\ resource.EntryBox.active
    /\ resource.Pointer.set = "B"
    /\ resource.Pointer.cursor = "Entry"
    /\ entryFrom = "View"

\* s without its last element
DropLast(s) == SubSeq(s, 1, Len(s) - 1)

\* C16 (Backspace): after a Backspace event in entry mode, if the buffer was
\* empty the whole registry is as before (buffer empty, entry box active,
\* focus and file list unchanged); otherwise exactly the last character is
\* gone and nothing else changed.
C16_Backspace ==
    (DispatchedInEntry /\ event.code = "Backspace")
    => IF prev.EntryBox.buffer = <<>>
       THEN resource = prev /\ resource.EntryBox.active
       ELSE resource =
              [prev EXCEPT !.EntryBox.buffer = DropLast(prev.EntryBox.buffer)]

\* Backspace on a buffer of two different characters
C16_Witness ==
    /\ DispatchedInEntry
    /\ event.code = "Backspace"
    /\ Len(prev.EntryBox.buffer) = 2
    /\ prev.EntryBox.buffer[1] # prev.EntryBox.buffer[2]
    /\ resource.EntryBox.buffer = <<prev.EntryBox.buffer[1]>>

\* Backspace on an empty buffer
C16_WitnessEmpty ==
    /\ DispatchedInEntry
    /\ event.code = "Backspace"
    /\ prev.EntryBox.buffer = <<>>
    /\ resource = prev

\* C18 (normal-mode navigation): after a Left arrow in normal mode the focus
\* is on Files, after a Right arrow it is on View, and neither changed the
\* entry flag, the buffer, the file list or the argument list; an event that
\* made the entry box active in normal mode is Ctrl+N.
C18_NormalNavigation ==
    DispatchedInNormal
    => /\ (event.kind = "Key" /\ event.code = "Left")
          => resource = [prev EXCEPT !.Pointer.cursor = "Files"]
       /\ (event.kind = "Key" /\ event.code = "Right")
          => resource = [prev EXCEPT !.Pointer.cursor = "View"]
       /\ resource.EntryBox.active => event = CtrlN

\* Left arrow while the focus is on View
C18_Witness ==
    /\ DispatchedInNormal
    /\ event.code = "Left"
    /\ prev.Pointer.cursor = "View"
    /\ resource.Pointer.cursor = "Files"
    /\ Len(resource.FileBuff) >= 1

\* Right arrow, with a modifier, while the focus is on Files
C18_WitnessRight ==
    /\ DispatchedInNormal
    /\ event = Key("Right", "", CONTROL)
    /\ prev.Pointer.cursor = "Files"
    /\ resource.Pointer.cursor = "View"

\* C20 (entry-mode characters whatever the modifiers): after a key event with
\* a character code c in entry mode, other than exactly Ctrl+N, Ctrl+Q and
\* Ctrl+C, c is appended once to the end of the buffer and nothing else
\* changed.
C20_CharAnyModifier ==
    (pc \in {"draw", "quit"} /\ event.kind = "Key" /\ prev.EntryBox.active
       /\ event.code = "Char" /\ event \notin {CtrlN, CtrlQ, CtrlC})
    => /\ pc = "draw"
       /\ resource = [prev EXCEPT !.EntryBox.buffer = Append(@, event.ch)]

\* Ctrl+A typed after another character
C20_Witness ==
    /\ DispatchedInEntry
    /\ event = CharKey("a", CONTROL)
    /\ Len(prev.EntryBox.buffer) >= 1
    /\ resource.EntryBox.buffer = Append(prev.EntryBox.buffer, "a")

\* Ctrl+Shift+Q is text, not a quit
C20_WitnessShiftQ ==
    /\ DispatchedInEntry
    /\ event = CharKey("q", CONTROL_SHIFT)
    /\ resource.EntryBox.buffer = Append(prev.EntryBox.buffer, "q")

\* C17 (render cadence): a loop iteration polls once and, unless it ends the
\* session, then draws once: key_listener is followed by the draw, by the
\* return on quit or by the unwinding of a failure; the next poll comes only
\* after the draw of the iteration before it (or starts the loop); the draw
\* does not touch the registry; and after the quit signal run returns without
\* drawing.
C17_RenderCadence ==
    [][/\ pc = "poll" => pc' \in {"draw", "quit", "drop"}
       /\ pc' = "poll" => pc \in {"init", "draw"}
       /\ pc' = "draw" => pc = "poll"
       /\ pc = "draw" => (pc' \in {"poll", "drop"}
                          /\ (pc' = "poll" => resource' = resource))
       /\ pc = "quit" => (pc' = "drop" /\ cursorShown' = cursorShown)]_vars

\* an iteration in which no event arrived is about to draw, in entry mode
C17_Witness ==
    /\ pc = "draw"
    /\ event = NoEvent
    /\ prev = resource
    /\ resource.EntryBox.active
    /\ resource.EntryBox.buffer # <<>>

\* C19 (raw mode never outlives the process): when the process has finished,
\* raw mode is disabled.
C19_RawModeReleased ==
    pc = "done" => ~raw

====
